---------------------------- MODULE Spec2Model ----------------------------
(***************************************************************************)
(* Import pipeline and progress notifier of the control-de-gastos backend. *)
(*                                                                         *)
(*   app/services/upload_service.py   UploadService.importar_desde_json,   *)
(*                                    _emit_progress, _emit_complete        *)
(*   app/services/upload_ws.py        connections, register, unregister,   *)
(*                                    send_progress, send_complete          *)
(*   app/routes/upload.py             ws_upload                            *)
(*                                                                         *)
(* JSON values are modelled as strings; a dict is a record whose missing   *)
(* keys hold Absent.  importar_desde_json is a synchronous method          *)
(* called on the event loop, so its steps never interleave with the        *)
(* coroutines of the loop; the notification tasks it creates run later and *)
(* are suspended at each `await ws.send_json`.                             *)
(***************************************************************************)
EXTENDS Integers, Sequences, FiniteSets, TLC

VARIABLES
    store,        \* committed rows of archivos_importados: <<[id, datos]>>
    session,      \* rows added to the SQLAlchemy session, not yet committed
    nextId,       \* next primary key of archivos_importados
    imp,          \* the running / last importar_desde_json call
    calls,        \* number of importar_desde_json calls started
    uuids,        \* number of uuid4() values drawn
    tasks,        \* asyncio tasks created by create_task, in creation order
    connections,  \* upload_ws.connections: lote_id -> set of websockets
    wsock,        \* per websocket: position of its ws_upload handler, lote, open;
                  \* history: the imports started before it registered (since)
                  \* and the dispatches started before it registered (missed)
    received,     \* per websocket: the events delivered to it (task numbers)
    regs,         \* history: <<lote, ws>> pairs registered and not removed since
    faults,       \* history: dispatches that raised while iterating
    again,        \* history: the first websocket registered while already registered,
                  \* before any send was called
    txs,          \* committed rows of transacciones
    txNextId,     \* next primary key of transacciones
    lastReq       \* history: the last request answered by a synchronous handler,
                  \* with the tables before and after it

vars == <<store, session, nextId, imp, calls, uuids, tasks, connections,
          wsock, received, regs, faults, again, txs, txNextId, lastReq>>

---------------------------------------------------------------------------
(* Bounds of the model *)

MaxRows == 21
MaxImports == 1
MaxApiSends == 2
MaxStored == 3
MaxTx == 2

(* Program constant: `idx % 10 == 0` in importar_desde_json *)
ProgressEvery == 10

(* Program constant: `df.head(10)` in listar_y_validar_hojas *)
MuestraMax == 10

Observers == {"w1", "w2"}
ClientLotes == {"L1", "L2"}
GenIds == <<"gen1", "gen2", "gen3">>

None == "None"
Absent == "absent"

---------------------------------------------------------------------------
(* JSON rows *)

EmptyDict == [x |-> Absent, lote_id |-> Absent, archivo_nombre |-> Absent, oculto |-> Absent]

PlainRow == [shape |-> "dict", d |-> [EmptyDict EXCEPT !.x = "v"]]
TaggedRow == [shape |-> "dict", d |-> [EmptyDict EXCEPT !.x = "v", !.lote_id = "L2"]]
NullRow == [shape |-> "null", d |-> EmptyDict]
ScalarRow == [shape |-> "scalar", d |-> EmptyDict]

RowMenu == {PlainRow, TaggedRow, NullRow, ScalarRow}

\* a list of n rows: plain rows, the last one drawn from the menu
Filas(n, last) == [i \in 1..n |-> IF i = n THEN last ELSE PlainRow]

Truthy(s) == s \notin {None, ""}

\* `row or {}`: None and {} are falsy
RowOrEmpty(row) == IF row.shape = "null" \/ (row.shape = "dict" /\ row.d = EmptyDict)
                   THEN [shape |-> "dict", d |-> EmptyDict]
                   ELSE row

\* `dict(row or {})`: copies a mapping, raises on a truthy non-mapping
DictOfRow(row) ==
    LET r == RowOrEmpty(row)
    IN  IF r.shape = "dict" THEN [ok |-> TRUE, d |-> r.d]
        ELSE [ok |-> FALSE, d |-> EmptyDict]

\* payload.setdefault('lote_id', lote_id), a key of the row survives: a mutant
TagPayloadSetdefault(d, archivo_nombre, lote_id) ==
    LET p == IF Truthy(archivo_nombre) THEN [d EXCEPT !.archivo_nombre = archivo_nombre] ELSE d
    IN  IF p.lote_id = Absent THEN [p EXCEPT !.lote_id = lote_id] ELSE p

\* lines 135-138: the payload stored for one row
TagPayload(d, archivo_nombre, lote_id) ==
    LET p == IF Truthy(archivo_nombre) THEN [d EXCEPT !.archivo_nombre = archivo_nombre] ELSE d
    IN  [p EXCEPT !.lote_id = lote_id]

\* progress at the multiples only, the final row forgotten: a mutant
EmitsAtMultiples(idx, total) == idx % ProgressEvery = 0

\* line 143: the progress rule
EmitsAt(idx, total) == idx % ProgressEvery = 0 \/ idx = total

---------------------------------------------------------------------------
(* Result envelope (build_response) *)

NoData == [total_creados |-> 0, lote_id |-> None, archivo_nombre |-> None]

Success(creados, lote_id, archivo_nombre) ==
    [success |-> TRUE, error |-> None,
     data |-> [total_creados |-> creados, lote_id |-> lote_id, archivo_nombre |-> archivo_nombre]]

Failure(e) == [success |-> FALSE, error |-> e, data |-> NoData]

NoResult == [success |-> FALSE, error |-> "pending", data |-> NoData]

IdleCall == [pc |-> "idle", filas |-> <<>>, archivo_nombre |-> None, lote_arg |-> None,
             loop |-> TRUE, lote_id |-> None, idx |-> 0, creados |-> 0, total |-> 0,
             committed |-> FALSE, firstId |-> 1, result |-> NoResult]

---------------------------------------------------------------------------
(* Relational session: database.py sessionmaker(autocommit=False,           *)
(* autoflush=False); rows added stay pending until commit.                  *)

Db == [store |-> store, session |-> session, nextId |-> nextId]

\* db.add(ArchivoImportado(datos=payload)), with autocommit: a mutant
DbAddAutocommit(db, payload) ==
    [db EXCEPT !.store = Append(@, [id |-> db.nextId, datos |-> payload]),
               !.nextId = @ + 1]

\* db.add(ArchivoImportado(datos=payload))
DbAdd(db, payload) == [db EXCEPT !.session = Append(@, payload)]

\* db.commit(): inserts the pending rows in one transaction
DbCommit(db) ==
    [store |-> db.store \o [i \in 1..Len(db.session) |->
                               [id |-> db.nextId + i - 1, datos |-> db.session[i]]],
     session |-> <<>>,
     nextId |-> db.nextId + Len(db.session)]

\* db.rollback(): discards the pending rows
DbRollback(db) == [db EXCEPT !.session = <<>>]

SetDb(db) ==
    /\ store' = db.store
    /\ session' = db.session
    /\ nextId' = db.nextId

---------------------------------------------------------------------------
(* asyncio tasks *)

NewTask(kind, lote, processed, total, call) ==
    [kind |-> kind, lote |-> lote, processed |-> processed, total |-> total,
     call |-> call, st |-> "new", snap |-> {}, visited |-> {}, failed |-> {},
     cur |-> None, fault |-> FALSE]

\* asyncio.create_task(self._emit_progress(lote_id, idx, total))
CreateProgressTask(ts, lote, idx, total, call) ==
    Append(ts, NewTask("progress", lote, idx, total, call))

\* asyncio.create_task(self._emit_complete(lote_id))
CreateCompleteTask(ts, lote, call) ==
    Append(ts, NewTask("complete", lote, 0, 0, call))

---------------------------------------------------------------------------
(* UploadService.importar_desde_json *)

\* the event loop runs one coroutine at a time: nothing else runs on it
\* while the synchronous import is between its first and last statement
LoopFree == imp.pc # "loop"

\* `lote_id = lote_id or str(uuid4())`
LoteOrUuid(lote, n) == IF Truthy(lote) THEN lote ELSE GenIds[n + 1]

\* the call starts: locals initialised (lines 131-133)
ImportStart(filas, archivo_nombre, lote, loop) ==
    /\ imp.pc \in {"idle", "done"}
    /\ calls < MaxImports
    /\ calls' = calls + 1
    /\ uuids' = IF Truthy(lote) THEN uuids ELSE uuids + 1
    /\ imp' = [pc |-> "loop", filas |-> filas, archivo_nombre |-> archivo_nombre,
               lote_arg |-> lote, loop |-> loop,
               lote_id |-> LoteOrUuid(lote, uuids),
               idx |-> 0, creados |-> 0, total |-> Len(filas),
               committed |-> FALSE, firstId |-> nextId, result |-> NoResult]
    /\ session' = <<>>
    /\ UNCHANGED <<store, nextId, tasks, connections, wsock, received, regs, faults, again,
                   txs, txNextId, lastReq>>

\* `except Exception as e: self.db.rollback(); return build_response(False...)`
ImportRaise(db, e) ==
    /\ SetDb(DbRollback(db))
    /\ imp' = [imp EXCEPT !.pc = "done", !.result = Failure(e)]

\* one iteration of `for idx, row in enumerate(filas, start=1)` (lines 134-145)
ImportRow ==
    /\ imp.pc = "loop"
    /\ imp.idx < imp.total
    /\ LET idx == imp.idx + 1
           c == DictOfRow(imp.filas[idx])
           payload == TagPayload(c.d, imp.archivo_nombre, imp.lote_id)
           db == DbAdd(Db, payload)
       IN  IF ~c.ok
           THEN /\ ImportRaise(Db, "TypeError")
                /\ UNCHANGED tasks
           ELSE IF EmitsAt(idx, imp.total) /\ ~imp.loop
           THEN \* create_task: RuntimeError, no running event loop
                /\ ImportRaise(db, "RuntimeError")
                /\ UNCHANGED tasks
           ELSE /\ SetDb(db)
                /\ imp' = [imp EXCEPT !.idx = idx, !.creados = @ + 1]
                /\ tasks' = IF EmitsAt(idx, imp.total)
                            THEN CreateProgressTask(tasks, imp.lote_id, idx, imp.total, calls)
                            ELSE tasks
    /\ UNCHANGED <<calls, uuids, connections, wsock, received, regs, faults, again,
                   txs, txNextId, lastReq>>

\* the completion task created before the commit: a mutant
ImportTailNotifyFirst(db, ts, c, call, commitOk) ==
    IF ~c.loop
    THEN [db |-> DbRollback(db), tasks |-> ts,
          imp |-> [c EXCEPT !.pc = "done", !.result = Failure("RuntimeError")]]
    ELSE IF ~commitOk
    THEN [db |-> DbRollback(db), tasks |-> CreateCompleteTask(ts, c.lote_id, call),
          imp |-> [c EXCEPT !.pc = "done", !.result = Failure("DBError")]]
    ELSE [db |-> DbCommit(db), tasks |-> CreateCompleteTask(ts, c.lote_id, call),
          imp |-> [c EXCEPT !.pc = "done", !.committed = TRUE,
                            !.result = Success(c.creados, c.lote_id, c.archivo_nombre)]]

\* after the loop (lines 146-162): commit, completion task, result; a commit
\* that raises, or a create_task that raises, ends in the except branch
ImportTail(db, ts, c, call, commitOk) ==
    IF ~commitOk
    THEN [db |-> DbRollback(db), tasks |-> ts,
          imp |-> [c EXCEPT !.pc = "done", !.result = Failure("DBError")]]
    ELSE IF ~c.loop
    THEN [db |-> DbRollback(DbCommit(db)), tasks |-> ts,
          imp |-> [c EXCEPT !.pc = "done", !.committed = TRUE,
                            !.result = Failure("RuntimeError")]]
    ELSE [db |-> DbCommit(db), tasks |-> CreateCompleteTask(ts, c.lote_id, call),
          imp |-> [c EXCEPT !.pc = "done", !.committed = TRUE,
                            !.result = Success(c.creados, c.lote_id, c.archivo_nombre)]]

\* the commit succeeds or raises (storage failure)
ImportCommit ==
    /\ imp.pc = "loop"
    /\ imp.idx = imp.total
    /\ \E commitOk \in BOOLEAN :
         LET r == ImportTail(Db, tasks, imp, calls, commitOk)
         IN  /\ SetDb(r.db)
             /\ tasks' = r.tasks
             /\ imp' = r.imp
    /\ UNCHANGED <<calls, uuids, connections, wsock, received, regs, faults, again,
                   txs, txNextId, lastReq>>

---------------------------------------------------------------------------
(* upload_ws: the registry *)

\* connections.get(lote_id, set())
Get(conn, l) == IF l \in DOMAIN conn THEN conn[l] ELSE {}

Pairs(conn) == {p \in (DOMAIN conn) \X Observers : p[2] \in conn[p[1]]}

\* register where an observer that registers again takes the batch over,
\* the other observers dropped: a mutant
registerTakeover(conn, l, w) ==
    IF w \in Get(conn, l)
    THEN [conn EXCEPT ![l] = {w}]
    ELSE [k \in (DOMAIN conn) \cup {l} |-> IF k = l THEN Get(conn, l) \cup {w} ELSE conn[k]]

\* register (lines 7-10)
register(conn, l, w) ==
    LET c1 == IF l \notin DOMAIN conn
              THEN [k \in (DOMAIN conn) \cup {l} |-> IF k = l THEN {} ELSE conn[k]]
              ELSE conn
    IN  [c1 EXCEPT ![l] = @ \cup {w}]

\* unregister that keeps the emptied entry: a mutant
unregisterKeep(conn, l, w) ==
    IF l \in DOMAIN conn THEN [conn EXCEPT ![l] = @ \ {w}] ELSE conn

\* unregister (lines 12-18)
unregister(conn, l, w) ==
    LET c1 == IF l \in DOMAIN conn THEN [conn EXCEPT ![l] = @ \ {w}] ELSE conn
    IN  IF Get(c1, l) = {}
        THEN [k \in (DOMAIN c1) \ {l} |-> c1[k]]
        ELSE c1

---------------------------------------------------------------------------
(* upload_ws: send_progress / send_complete (lines 20-34), run inside the   *)
(* task of _emit_progress / _emit_complete, which swallows what they raise  *)

\* iterating the registry's own set: a mutant
IteratedLive(t, conn) == Get(conn, t.lote)

\* the collection `for ws in ...` walks: the list copy made when the loop starts
Iterated(t, conn) == t.snap

\* Python raises RuntimeError when a set changed size while it is iterated
IterFaults(t, conn) == Cardinality(Iterated(t, conn)) # Cardinality(t.snap)

\* a send that raises ends the loop: a mutant
RemainingAbort(t, conn, ok) == IF ok THEN Iterated(t, conn) \ t.visited ELSE {}

\* the observers the loop still has to visit after a send returned or raised
Remaining(t, conn, ok) == Iterated(t, conn) \ t.visited

\* the loop moves to its next observer and calls ws.send_json, or ends
Advance(t, conn, ok) ==
    IF IterFaults(t, conn)
    THEN {[t EXCEPT !.st = "done", !.cur = None, !.fault = TRUE]}
    ELSE IF Remaining(t, conn, ok) = {}
    THEN {[t EXCEPT !.st = "done", !.cur = None]}
    ELSE {[t EXCEPT !.st = "sending", !.cur = w, !.visited = @ \cup {w}] :
             w \in Remaining(t, conn, ok)}

Started(i) == tasks[i].st # "new"

\* the task runs for the first time: list(connections.get(lote_id, set()))
DispatchStart(i) ==
    /\ LoopFree
    /\ i \in 1..Len(tasks)
    /\ tasks[i].st = "new"
    /\ \A j \in 1..(i - 1) : Started(j)
    /\ LET t == [tasks[i] EXCEPT !.snap = Get(connections, tasks[i].lote)]
       IN  \E t2 \in Advance(t, connections, TRUE) :
              tasks' = [tasks EXCEPT ![i] = t2]
    /\ UNCHANGED <<store, session, nextId, imp, calls, uuids, connections, wsock,
                   received, regs, faults, again,
                   txs, txNextId, lastReq>>

\* `await ws.send_json(payload)` returns, or raises and the observer is
\* unregistered; the loop goes on
DispatchResume(i) ==
    /\ LoopFree
    /\ i \in 1..Len(tasks)
    /\ tasks[i].st = "sending"
    /\ LET t == tasks[i]
           w == t.cur
           ok == wsock[w].open
           conn == IF ok THEN connections ELSE unregister(connections, t.lote, w)
           t1 == IF ok THEN t ELSE [t EXCEPT !.failed = @ \cup {w}]
       IN  /\ connections' = conn
           /\ received' = IF ok THEN [received EXCEPT ![w] = Append(@, i)] ELSE received
           /\ regs' = IF ok THEN regs ELSE regs \ {<<t.lote, w>>}
           /\ \E t2 \in Advance(t1, conn, ok) :
                 /\ tasks' = [tasks EXCEPT ![i] = t2]
                 /\ faults' = IF t2.fault THEN faults \cup {i} ELSE faults
    /\ UNCHANGED <<store, session, nextId, imp, calls, uuids, wsock, again,
                   txs, txNextId, lastReq>>

---------------------------------------------------------------------------
(* routes/upload.py: ws_upload (lines 238-249), one handler per websocket *)

\* a client connects to /ws/{lote_id}: `await websocket.accept()`, then
\* `await upload_ws.register(lote_id, websocket)`
WsConnect(w, l) ==
    /\ LoopFree
    /\ wsock[w].pc = "idle"
    /\ wsock[w].open
    /\ connections' = register(connections, l, w)
    /\ regs' = regs \cup {<<l, w>>}
    /\ wsock' = [wsock EXCEPT ![w].pc = "listening", ![w].lote = l,
                              ![w].since = calls,
                              ![w].missed = {i \in 1..Len(tasks) :
                                               Started(i) /\ tasks[i].lote = l}]
    /\ UNCHANGED <<store, session, nextId, imp, calls, uuids, tasks, received,
                   faults, again,
                   txs, txNextId, lastReq>>

\* the client goes away: receive_text and send_json raise from now on
ClientClose(w) ==
    /\ wsock[w].pc = "listening"
    /\ wsock[w].open
    /\ wsock' = [wsock EXCEPT ![w].open = FALSE]
    /\ UNCHANGED <<store, session, nextId, imp, calls, uuids, tasks, connections,
                   received, regs, faults, again,
                   txs, txNextId, lastReq>>

\* `await websocket.receive_text()` raises; finally: unregister
WsExit(w) ==
    /\ LoopFree
    /\ wsock[w].pc = "listening"
    /\ ~wsock[w].open
    /\ connections' = unregister(connections, wsock[w].lote, w)
    /\ regs' = regs \ {<<wsock[w].lote, w>>}
    /\ wsock' = [wsock EXCEPT ![w].pc = "closed"]
    /\ UNCHANGED <<store, session, nextId, imp, calls, uuids, tasks, received,
                   faults, again,
                   txs, txNextId, lastReq>>

---------------------------------------------------------------------------
(* The module upload_ws called directly, in any order *)

ApiRegister(l, w) ==
    /\ connections' = register(connections, l, w)
    /\ regs' = regs \cup {<<l, w>>}
    /\ again' = IF w \in Get(connections, l) /\ again = {} /\ tasks = <<>>
                THEN {w} ELSE again
    /\ UNCHANGED <<store, session, nextId, imp, calls, uuids, tasks, wsock,
                   received, faults,
                   txs, txNextId, lastReq>>

ApiUnregister(l, w) ==
    /\ connections' = unregister(connections, l, w)
    /\ regs' = regs \ {<<l, w>>}
    /\ UNCHANGED <<store, session, nextId, imp, calls, uuids, tasks, wsock,
                   received, faults, again,
                   txs, txNextId, lastReq>>

\* a call of send_progress(l, 1, 1) or of send_complete(l) is started
ApiSend(kind, l) ==
    /\ Len(tasks) < MaxApiSends
    /\ tasks' = Append(tasks, NewTask(kind, l, IF kind = "progress" THEN 1 ELSE 0,
                                      IF kind = "progress" THEN 1 ELSE 0, 0))
    /\ UNCHANGED <<store, session, nextId, imp, calls, uuids, connections, wsock,
                   received, regs, faults, again,
                   txs, txNextId, lastReq>>

\* a websocket breaks: send_json raises from now on
ApiBreak(w) ==
    /\ wsock[w].open
    /\ wsock' = [wsock EXCEPT ![w].open = FALSE]
    /\ UNCHANGED <<store, session, nextId, imp, calls, uuids, tasks, connections,
                   received, regs, faults, again,
                   txs, txNextId, lastReq>>

---------------------------------------------------------------------------
(* Answers of the synchronous handlers *)

\* both tables, as a handler finds or leaves them
Tables(st, ts) == [store |-> st, txs |-> ts]

\* one answered request: the handler, its inputs, the tables before and
\* after it, the body returned and the HTTP status
Answered(op, arg, pre, post, res, status) ==
    [op |-> op, arg |-> arg, pre |-> pre, post |-> post, res |-> res, status |-> status]

NoRequest == Answered("none", None, Tables(<<>>, <<>>), Tables(<<>>, <<>>), None, 0)

\* build_response (transaction_service.py lines 14-23)
build_response(success, message, data, error) ==
    [success |-> success, message |-> message, data |-> data, error |-> error]

---------------------------------------------------------------------------
(* routes/upload.py: hide, restore and delete of imported rows *)

PyTrue == "True"
PyFalse == "False"

\* the value of `d.get('oculto')` taken as a condition: a missing key, None,
\* False and "" are falsy, True and every other value are truthy
Oculto(d) == d.oculto \notin {Absent, None, PyFalse, ""}

\* hide that marks every row of the batch, hidden or not: a mutant
HideTouchesAll(d, lote_id) == d.lote_id = lote_id

\* line 208: `d.get('lote_id') == lote_id and not d.get('oculto')`
HideTouches(d, lote_id) == d.lote_id = lote_id /\ ~Oculto(d)

\* line 227: `d.get('lote_id') == lote_id and d.get('oculto')`
RestoreTouches(d, lote_id) == d.lote_id = lote_id /\ Oculto(d)

\* a payload rebuilt from the batch identifier and the flag alone: a mutant
SetOcultoOnly(d, flag) == [EmptyDict EXCEPT !.lote_id = d.lote_id, !.oculto = flag]

\* lines 207-210 / 226-229: `d = dict(a.datos or {}); d['oculto'] = flag; a.datos = d`
SetOculto(d, flag) == [d EXCEPT !.oculto = flag]

\* the loop of ocultar_lote (lines 204-211) over the rows in id order: the
\* rows after it and `cambios`
ocultar_lote(rows, lote_id) ==
    [rows |-> [k \in 1..Len(rows) |->
                  IF HideTouches(rows[k].datos, lote_id)
                  THEN [rows[k] EXCEPT !.datos = SetOculto(@, PyTrue)]
                  ELSE rows[k]],
     cambios |-> Cardinality({k \in 1..Len(rows) : HideTouches(rows[k].datos, lote_id)})]

\* the loop of restaurar_lote (lines 223-230)
restaurar_lote(rows, lote_id) ==
    [rows |-> [k \in 1..Len(rows) |->
                  IF RestoreTouches(rows[k].datos, lote_id)
                  THEN [rows[k] EXCEPT !.datos = SetOculto(@, PyFalse)]
                  ELSE rows[k]],
     cambios |-> Cardinality({k \in 1..Len(rows) : RestoreTouches(rows[k].datos, lote_id)})]

\* the bodies the three handlers return
LoteOk(message, cambios) ==
    [success |-> TRUE, message |-> message, registros_afectados |-> cambios, error |-> None]

RouteError(e) ==
    [success |-> FALSE, message |-> None, registros_afectados |-> 0, error |-> e]

\* POST /upload/imported-files/{lote_id}/hide: the query or the commit may
\* raise (dbOk false), then rollback and success=false
OcultarLote(lote_id, dbOk) ==
    /\ LET r == ocultar_lote(store, lote_id)
           st == IF dbOk THEN r.rows ELSE store
       IN  /\ store' = st
           /\ lastReq' = Answered("hide", [lote_id |-> lote_id, dbOk |-> dbOk],
                               Tables(store, txs), Tables(st, txs),
                               IF dbOk THEN LoteOk("ocultado", r.cambios)
                               ELSE RouteError("DBError"), 200)
    /\ UNCHANGED <<session, nextId, imp, calls, uuids, tasks, connections, wsock,
                   received, regs, faults, again, txs, txNextId>>

\* POST /upload/imported-files/{lote_id}/restore
RestaurarLote(lote_id, dbOk) ==
    /\ LET r == restaurar_lote(store, lote_id)
           st == IF dbOk THEN r.rows ELSE store
       IN  /\ store' = st
           /\ lastReq' = Answered("restore", [lote_id |-> lote_id, dbOk |-> dbOk],
                               Tables(store, txs), Tables(st, txs),
                               IF dbOk THEN LoteOk("restaurado", r.cambios)
                               ELSE RouteError("DBError"), 200)
    /\ UNCHANGED <<session, nextId, imp, calls, uuids, tasks, connections, wsock,
                   received, regs, faults, again, txs, txNextId>>

\* a delete that spares the hidden rows: a mutant
QueryDeleteVisible(rows) == SelectSeq(rows, LAMBDA a : Oculto(a.datos))

\* line 193: `db.query(ArchivoImportado).delete()`, the rows left
QueryDelete(rows) == <<>>

\* DELETE /upload/imported-files (lines 187-198)
EliminarTodosLosImportados(dbOk) ==
    /\ LET st == IF dbOk THEN QueryDelete(store) ELSE store
       IN  /\ store' = st
           /\ lastReq' = Answered("delete_all", [dbOk |-> dbOk],
                               Tables(store, txs), Tables(st, txs),
                               IF dbOk THEN LoteOk("eliminados", 0)
                               ELSE RouteError("DBError"), 200)
    /\ UNCHANGED <<session, nextId, imp, calls, uuids, tasks, connections, wsock,
                   received, regs, faults, again, txs, txNextId>>

---------------------------------------------------------------------------
(* UploadService.procesar_archivo_excel and POST /upload/excel *)

\* one data row of the sheet after read_excel and the null normalisation:
\* its cells, and what handling it does.  "raise": building the payload or
\* adding the row raises inside the per-row try.  "unserializable": a cell
\* holds a value json cannot encode (a Timestamp of a date cell, a numpy
\* scalar); the JSON column encodes the payload when the session is flushed,
\* that is, inside db.commit().
SheetRow(d, fault) == [d |-> d, fault |-> fault]

\* the loop `for index, row in df.iterrows()` (lines 32-38): the session,
\* `creados` and `errores` after it
RECURSIVE procesar_filas_from(_, _, _, _, _)
procesar_filas_from(db, sheet, k, creados, errores) ==
    IF k > Len(sheet)
    THEN [db |-> db, creados |-> creados, errores |-> errores]
    ELSE IF sheet[k].fault = "raise"
    THEN procesar_filas_from(db, sheet, k + 1, creados, Append(errores, k + 1))
    ELSE procesar_filas_from(DbAdd(db, sheet[k]), sheet, k + 1, creados + 1, errores)

procesar_filas(db, sheet) == procesar_filas_from(db, sheet, 1, 0, <<>>)

\* the flush of db.commit() encodes every pending payload
Serializable(pending) == \A k \in 1..Len(pending) : pending[k].fault # "unserializable"

\* the pending sheet rows become payloads of the JSON column
Payloads(db) == [db EXCEPT !.session = [k \in 1..Len(db.session) |-> db.session[k].d]]

\* procesar_archivo_excel (lines 22-48) on the request's own session
procesar_archivo_excel(db, readable, sheet, dbOk) ==
    IF ~readable
    THEN [db |-> DbRollback(db),
          res |-> build_response(FALSE, "Error al procesar archivo Excel", None, "ReadError")]
    ELSE LET r == procesar_filas(db, sheet)
         IN  IF ~dbOk \/ ~Serializable(r.db.session)
             THEN [db |-> DbRollback(r.db),
                   res |-> build_response(FALSE, "Error al procesar archivo Excel", None,
                                          IF ~dbOk THEN "DBError" ELSE "TypeError")]
             ELSE [db |-> DbCommit(Payloads(r.db)),
                   res |-> build_response(TRUE, "Archivo procesado",
                                          [total_filas |-> Len(sheet),
                                           creados |-> r.creados,
                                           errores |-> r.errores], None)]

\* `file.filename.endswith(('.xls', '.xlsx'))`
ExtOk(filename) == filename \in {"a.xls", "a.xlsx"}

\* POST /upload/excel (routes/upload.py lines 19-62)
CargarArchivoExcel(filename, readable, sheet, dbOk) ==
    /\ nextId + Len(sheet) <= MaxStored + 1
    /\ LET r == procesar_archivo_excel([store |-> store, session |-> <<>>, nextId |-> nextId],
                                       readable, sheet, dbOk)
           db == IF ExtOk(filename) THEN r.db ELSE [store |-> store, nextId |-> nextId]
       IN  /\ store' = db.store
           /\ nextId' = db.nextId
           /\ lastReq' = Answered("excel",
                               [filename |-> filename, readable |-> readable,
                                sheet |-> sheet, dbOk |-> dbOk],
                               Tables(store, txs), Tables(db.store, txs),
                               IF ExtOk(filename) THEN r.res ELSE None,
                               IF ~ExtOk(filename) THEN 400
                               ELSE IF r.res.success THEN 200 ELSE 400)
    /\ UNCHANGED <<session, imp, calls, uuids, tasks, connections, wsock,
                   received, regs, faults, again, txs, txNextId>>

---------------------------------------------------------------------------
(* UploadService.listar_y_validar_hojas and POST /upload/excel/preview *)

\* Python values of the form field and of json.loads
PyNone == [t |-> "None", v |-> <<>>]
PyList(v) == [t |-> "list", v |-> v]
PyInt(n) == [t |-> "int", v |-> <<n>>]
PyStr(chars) == [t |-> "str", v |-> chars]

\* json.loads of the form texts tried; it raises on text that is not JSON
JsonLoads(text) ==
    CASE text = "[]" -> [ok |-> TRUE, v |-> PyList(<<>>)]
      [] text = "[\"a\"]" -> [ok |-> TRUE, v |-> PyList(<<"a">>)]
      [] text = "[\"a\",\"b\"]" -> [ok |-> TRUE, v |-> PyList(<<"a", "b">>)]
      [] text = "[\"c\",\"a\",\"c\"]" -> [ok |-> TRUE, v |-> PyList(<<"c", "a", "c">>)]
      [] text = "[\"d\"]" -> [ok |-> TRUE, v |-> PyList(<<"d">>)]
      [] text = "null" -> [ok |-> TRUE, v |-> PyNone]
      [] text = "0" -> [ok |-> TRUE, v |-> PyInt(0)]
      [] text = "5" -> [ok |-> TRUE, v |-> PyInt(5)]
      [] text = "\"ab\"" -> [ok |-> TRUE, v |-> PyStr(<<"a", "b">>)]
      [] OTHER -> [ok |-> FALSE, v |-> PyNone]

\* lines 127-132 of the route: the form field, absent (None) or a text
ColumnasEsperadas(expected_columns) ==
    IF expected_columns \in {None, ""} THEN PyNone
    ELSE IF JsonLoads(expected_columns).ok THEN JsonLoads(expected_columns).v
    ELSE PyNone

\* `not columnas_esperadas or columnas_esperadas == []`
SinValidacion(cols) ==
    \/ cols.t = "None"
    \/ cols.t \in {"list", "str"} /\ cols.v = <<>>
    \/ cols.t = "int" /\ cols.v = <<0>>

\* `for c in columnas_esperadas` raises TypeError on a number
Iterable(cols) == cols.t \in {"list", "str"}

\* the expected columns that are present: a mutant
FaltantesPresentes(esperadas, presentes) ==
    SelectSeq(esperadas, LAMBDA c : \E k \in 1..Len(presentes) : presentes[k] = c)

\* line 87: `[c for c in columnas_esperadas if c not in columnas_presentes]`
Faltantes(esperadas, presentes) ==
    SelectSeq(esperadas, LAMBDA c : \A k \in 1..Len(presentes) : presentes[k] # c)

\* lines 81-97: the entry of one sheet; `muestra` is the number of sample rows
SheetInfo(hoja, cols) ==
    IF SinValidacion(cols)
    THEN [nombre |-> hoja.nombre, columnas_presentes |-> hoja.columnas,
          faltantes |-> <<>>, valido |-> TRUE, total_filas |-> hoja.filas,
          muestra |-> IF hoja.filas < MuestraMax THEN hoja.filas ELSE MuestraMax]
    ELSE [nombre |-> hoja.nombre, columnas_presentes |-> hoja.columnas,
          faltantes |-> Faltantes(cols.v, hoja.columnas),
          valido |-> Len(Faltantes(cols.v, hoja.columnas)) = 0,
          total_filas |-> hoja.filas,
          muestra |-> IF hoja.filas < MuestraMax THEN hoja.filas ELSE MuestraMax]

\* listar_y_validar_hojas (lines 71-110)
listar_y_validar_hojas(readable, hojas, cols) ==
    IF ~readable \/ (~SinValidacion(cols) /\ ~Iterable(cols) /\ hojas # <<>>)
    THEN build_response(FALSE, "Error al listar/validar hojas", None,
                        IF ~readable THEN "ReadError" ELSE "TypeError")
    ELSE build_response(TRUE, "Hojas listadas",
                        [sheets |-> [k \in 1..Len(hojas) |-> SheetInfo(hojas[k], cols)],
                         columnas_esperadas |-> IF SinValidacion(cols) THEN PyList(<<>>) ELSE cols],
                        None)

\* POST /upload/excel/preview (routes/upload.py lines 106-145): the body of
\* the service is returned as it is, failed or not
PrevisualizarHojasExcel(filename, readable, hojas, expected_columns) ==
    /\ lastReq' = Answered("preview",
                        [filename |-> filename, readable |-> readable, hojas |-> hojas,
                         expected_columns |-> expected_columns],
                        Tables(store, txs), Tables(store, txs),
                        IF ExtOk(filename)
                        THEN listar_y_validar_hojas(readable, hojas,
                                                    ColumnasEsperadas(expected_columns))
                        ELSE None,
                        IF ExtOk(filename) THEN 200 ELSE 400)
    /\ UNCHANGED <<store, session, nextId, imp, calls, uuids, tasks, connections, wsock,
                   received, regs, faults, again, txs, txNextId>>

---------------------------------------------------------------------------
(* Transactions: models.py Transaccion, schemas.py, TransactionService     *)

TipoTransaccion == {"ingreso", "gasto"}

Fields == {"fecha", "tipo", "categoria", "monto", "descripcion"}

\* an amount is <<n>>, a null amount is <<>>; the other fields are strings,
\* null is None.  created_at / updated_at are not modelled.
Monto(n) == <<n>>
Null == <<>>

\* the dates tried, and the parts the summary extracts from them
Fechas == {"2026-10-05", "2025-03-07"}
Anio(f) == IF f = "2026-10-05" THEN 2026 ELSE 2025
Mes(f) == IF f = "2026-10-05" THEN 10 ELSE 3
\* `Transaccion.fecha >= datetime.now() - timedelta(days=365)`, evaluated in
\* November 2026
Reciente(f) == f = "2026-10-05"

\* `Field(..., gt=0)`
Gt0(m) == m # Null /\ m[1] > 0

\* TransaccionCreate (schemas.py lines 12-22): every field but descripcion is
\* required, tipo is a member of the enum, monto > 0
ValidCreate(req) ==
    /\ req.fecha # None
    /\ req.tipo \in TipoTransaccion
    /\ req.categoria # None
    /\ Gt0(req.monto)

\* TransaccionUpdate (schemas.py lines 24-30): every field is Optional, a
\* supplied null passes; a supplied amount is > 0, a supplied tipo is a member
ValidUpdate(req) ==
    /\ "tipo" \in req.supplied => req.v.tipo \in TipoTransaccion \cup {None}
    /\ ("monto" \in req.supplied /\ req.v.monto # Null) => Gt0(req.v.monto)

\* no NOT NULL constraint on the columns: a mutant
NotNullOff(row) == FALSE

\* models.py lines 24-27: nullable=False on fecha, tipo, categoria, monto; the
\* UPDATE of a row that breaks it raises IntegrityError
NotNullViolated(row) ==
    row.fecha = None \/ row.tipo = None \/ row.categoria = None \/ row.monto = Null

\* `transaccion_update.dict()` without exclude_unset, the fields left out
\* written as null: a mutant
SetAttrsAll(row, req) ==
    [id |-> row.id,
     fecha |-> IF "fecha" \in req.supplied THEN req.v.fecha ELSE None,
     tipo |-> IF "tipo" \in req.supplied THEN req.v.tipo ELSE None,
     categoria |-> IF "categoria" \in req.supplied THEN req.v.categoria ELSE None,
     monto |-> IF "monto" \in req.supplied THEN req.v.monto ELSE Null,
     descripcion |-> IF "descripcion" \in req.supplied THEN req.v.descripcion ELSE None]

\* lines 133-135: `for field, value in dict(exclude_unset=True).items():
\* setattr(db_transaccion, field, value)`
SetAttrs(row, req) ==
    [id |-> row.id,
     fecha |-> IF "fecha" \in req.supplied THEN req.v.fecha ELSE row.fecha,
     tipo |-> IF "tipo" \in req.supplied THEN req.v.tipo ELSE row.tipo,
     categoria |-> IF "categoria" \in req.supplied THEN req.v.categoria ELSE row.categoria,
     monto |-> IF "monto" \in req.supplied THEN req.v.monto ELSE row.monto,
     descripcion |-> IF "descripcion" \in req.supplied THEN req.v.descripcion
                     ELSE row.descripcion]

\* `query(Transaccion).filter(Transaccion.id == transaccion_id).first()`:
\* the positions of the row, none or one
Find(ts, id) == {k \in 1..Len(ts) : ts[k].id = id}

\* TransaccionResponse.model_validate(t).model_dump()
Dump(row) == row

\* crear_transaccion (lines 31-54)
crear_transaccion(ts, nid, req, dbOk) ==
    IF ~dbOk
    THEN [txs |-> ts, nextId |-> nid,
          res |-> build_response(FALSE, "Error al crear transaccion", None, "DBError")]
    ELSE [txs |-> Append(ts, [id |-> nid, fecha |-> req.fecha, tipo |-> req.tipo,
                              categoria |-> req.categoria, monto |-> req.monto,
                              descripcion |-> req.descripcion]),
          nextId |-> nid + 1,
          res |-> build_response(TRUE, "Transaccion creada exitosamente", [id |-> nid], None)]

\* obtener_transacciones (lines 56-86): `offset(skip).limit(limit)`
obtener_transacciones(ts, skip, limit, dbOk) ==
    IF ~dbOk
    THEN build_response(FALSE, "Error al obtener transacciones", None, "DBError")
    ELSE build_response(TRUE, "Transacciones obtenidas exitosamente",
                        [transacciones |->
                             [k \in 1..(IF Len(ts) - skip < 0 THEN 0
                                        ELSE IF Len(ts) - skip < limit THEN Len(ts) - skip
                                        ELSE limit) |-> Dump(ts[skip + k])],
                         total |-> Len(ts), skip |-> skip, limit |-> limit], None)

\* obtener_transaccion_por_id (lines 88-115)
obtener_transaccion_por_id(ts, id, dbOk) ==
    IF ~dbOk
    THEN build_response(FALSE, "Error al obtener transaccion", None, "DBError")
    ELSE IF Find(ts, id) = {}
    THEN build_response(FALSE, "Transaccion no encontrada", None, "Transaccion no existe")
    ELSE build_response(TRUE, "Transaccion obtenida exitosamente",
                        Dump(ts[CHOOSE k \in Find(ts, id) : TRUE]), None)

\* actualizar_transaccion (lines 117-153)
actualizar_transaccion(ts, id, req, dbOk) ==
    IF ~dbOk
    THEN [txs |-> ts,
          res |-> build_response(FALSE, "Error al actualizar transaccion", None, "DBError")]
    ELSE IF Find(ts, id) = {}
    THEN [txs |-> ts,
          res |-> build_response(FALSE, "Transaccion no encontrada", None,
                                 "Transaccion no existe")]
    ELSE LET k == CHOOSE j \in Find(ts, id) : TRUE
             row == SetAttrs(ts[k], req)
         IN  IF NotNullViolated(row)
             THEN [txs |-> ts,
                   res |-> build_response(FALSE, "Error al actualizar transaccion", None,
                                          "IntegrityError")]
             ELSE [txs |-> [ts EXCEPT ![k] = row],
                   res |-> build_response(TRUE, "Transaccion actualizada exitosamente",
                                          Dump(row), None)]

\* eliminar_transaccion (lines 155-185)
eliminar_transaccion(ts, id, dbOk) ==
    IF ~dbOk
    THEN [txs |-> ts,
          res |-> build_response(FALSE, "Error al eliminar transaccion", None, "DBError")]
    ELSE IF Find(ts, id) = {}
    THEN [txs |-> ts,
          res |-> build_response(FALSE, "Transaccion no encontrada", None,
                                 "Transaccion no existe")]
    ELSE [txs |-> SelectSeq(ts, LAMBDA t : t.id # id),
          res |-> build_response(TRUE, "Transaccion eliminada exitosamente", None, None)]

\* SQL sum(): NULL over no row, NULL amounts skipped
RECURSIVE SumaMontos(_)
SumaMontos(q) ==
    IF q = <<>> THEN 0
    ELSE (IF Head(q).monto = Null THEN 0 ELSE Head(q).monto[1]) + SumaMontos(Tail(q))

SqlSum(q) ==
    IF \A k \in 1..Len(q) : q[k].monto = Null THEN Null ELSE Monto(SumaMontos(q))

\* `.scalar() or 0`
OrZero(m) == IF m = Null \/ m[1] = 0 THEN 0 ELSE m[1]

\* `.filter(Transaccion.tipo == tipo)`
DeTipo(ts, tipo) == SelectSeq(ts, LAMBDA t : t.tipo = tipo)

\* the grouping taken over the transactions of every kind: a mutant
GastosPorCategoriaTodas(ts) ==
    [c \in {ts[k].categoria : k \in 1..Len(ts)} |->
        OrZero(SqlSum(SelectSeq(ts, LAMBDA t : t.categoria = c)))]

\* lines 206-213: expenses grouped by category
GastosPorCategoria(ts) ==
    LET g == DeTipo(ts, "gasto")
    IN  [c \in {g[k].categoria : k \in 1..Len(g)} |->
            OrZero(SqlSum(SelectSeq(g, LAMBDA t : t.categoria = c)))]

\* `f"{int(anio)}-{int(mes):02d}"`
ClaveMensual(f) ==
    ToString(Anio(f)) \o "-" \o (IF Mes(f) < 10 THEN "0" ELSE "") \o ToString(Mes(f))

\* lines 216-249: the sums of one kind over the trailing 365 days, by month
Mensuales(ts, tipo) ==
    LET g == SelectSeq(DeTipo(ts, tipo), LAMBDA t : t.fecha # None /\ Reciente(t.fecha))
    IN  [key \in {ClaveMensual(g[k].fecha) : k \in 1..Len(g)} |->
            OrZero(SqlSum(SelectSeq(g, LAMBDA t : ClaveMensual(t.fecha) = key)))]

\* obtener_resumen_financiero (lines 187-272)
obtener_resumen_financiero(ts, dbOk) ==
    IF ~dbOk
    THEN build_response(FALSE, "Error al generar resumen financiero", None, "DBError")
    ELSE LET total_ingresos == OrZero(SqlSum(DeTipo(ts, "ingreso")))
             total_gastos == OrZero(SqlSum(DeTipo(ts, "gasto")))
         IN  build_response(TRUE, "Resumen financiero obtenido exitosamente",
                            [total_ingresos |-> total_ingresos,
                             total_gastos |-> total_gastos,
                             balance |-> total_ingresos - total_gastos,
                             gastos_por_categoria |-> GastosPorCategoria(ts),
                             ingresos_mensuales |-> Mensuales(ts, "ingreso"),
                             gastos_mensuales |-> Mensuales(ts, "gasto")], None)

---------------------------------------------------------------------------
(* routes/transactions.py and routes/analytics.py                          *)

\* `"no encontrada" in resultado.message.lower()`
NoEncontrada(message) == message \in {"Transaccion no encontrada"}

\* try: `if not resultado.success: raise HTTPException(400)`; then
\* `except Exception: raise HTTPException(500)`, which catches the
\* HTTPException raised inside the try (crear_transaccion,
\* obtener_transacciones, the analytics routes)
StatusCatchAll(res) == IF res.success THEN 200 ELSE 500

\* the same with `except HTTPException: raise` before it
\* (obtener_transaccion_por_id, actualizar_transaccion, eliminar_transaccion)
StatusReraise(res) ==
    IF res.success THEN 200
    ELSE IF NoEncontrada(res.message) THEN 404
    ELSE 400

\* the body FastAPI answers with when the request fails the schema
Unprocessable == build_response(FALSE, "validation error", None, "422")

\* POST /transactions/
CrearTransaccion(req, dbOk) ==
    /\ txNextId <= MaxTx
    /\ LET r == crear_transaccion(txs, txNextId, req, dbOk)
       IN  IF ValidCreate(req)
           THEN /\ txs' = r.txs
                /\ txNextId' = r.nextId
                /\ lastReq' = Answered("crear", [req |-> req, dbOk |-> dbOk],
                                    Tables(store, txs), Tables(store, r.txs),
                                    r.res, StatusCatchAll(r.res))
           ELSE /\ UNCHANGED <<txs, txNextId>>
                /\ lastReq' = Answered("crear", [req |-> req, dbOk |-> dbOk],
                                    Tables(store, txs), Tables(store, txs),
                                    Unprocessable, 422)
    /\ UNCHANGED <<store, session, nextId, imp, calls, uuids, tasks, connections, wsock,
                   received, regs, faults, again>>

\* GET /transactions/
ObtenerTransacciones(skip, limit, dbOk) ==
    /\ LET res == obtener_transacciones(txs, skip, limit, dbOk)
       IN  lastReq' = Answered("listar", [skip |-> skip, limit |-> limit, dbOk |-> dbOk],
                            Tables(store, txs), Tables(store, txs),
                            res, StatusCatchAll(res))
    /\ UNCHANGED <<store, session, nextId, imp, calls, uuids, tasks, connections, wsock,
                   received, regs, faults, again, txs, txNextId>>

\* GET /transactions/{transaccion_id}
ObtenerTransaccionPorId(id, dbOk) ==
    /\ LET res == obtener_transaccion_por_id(txs, id, dbOk)
       IN  lastReq' = Answered("obtener", [id |-> id, dbOk |-> dbOk],
                            Tables(store, txs), Tables(store, txs),
                            res, StatusReraise(res))
    /\ UNCHANGED <<store, session, nextId, imp, calls, uuids, tasks, connections, wsock,
                   received, regs, faults, again, txs, txNextId>>

\* PUT /transactions/{transaccion_id}
ActualizarTransaccion(id, req, dbOk) ==
    /\ LET r == actualizar_transaccion(txs, id, req, dbOk)
       IN  IF ValidUpdate(req)
           THEN /\ txs' = r.txs
                /\ lastReq' = Answered("actualizar", [id |-> id, req |-> req, dbOk |-> dbOk],
                                    Tables(store, txs), Tables(store, r.txs),
                                    r.res, StatusReraise(r.res))
           ELSE /\ UNCHANGED txs
                /\ lastReq' = Answered("actualizar", [id |-> id, req |-> req, dbOk |-> dbOk],
                                    Tables(store, txs), Tables(store, txs),
                                    Unprocessable, 422)
    /\ UNCHANGED <<store, session, nextId, imp, calls, uuids, tasks, connections, wsock,
                   received, regs, faults, again, txNextId>>

\* DELETE /transactions/{transaccion_id}
EliminarTransaccion(id, dbOk) ==
    /\ LET r == eliminar_transaccion(txs, id, dbOk)
       IN  /\ txs' = r.txs
           /\ lastReq' = Answered("eliminar", [id |-> id, dbOk |-> dbOk],
                               Tables(store, txs), Tables(store, r.txs),
                               r.res, StatusReraise(r.res))
    /\ UNCHANGED <<store, session, nextId, imp, calls, uuids, tasks, connections, wsock,
                   received, regs, faults, again, txNextId>>

\* what each analytics route returns of the summary (analytics.py lines
\* 28, 48-54, 74-84)
AnalyticsBody(ruta, res) ==
    IF ruta = "resumen" THEN res
    ELSE IF ruta = "gastos-por-categoria"
    THEN build_response(TRUE, "Gastos por categoria obtenidos exitosamente",
                        res.data.gastos_por_categoria, None)
    ELSE build_response(TRUE, "Tendencias mensuales obtenidas exitosamente",
                        [ingresos_mensuales |-> res.data.ingresos_mensuales,
                         gastos_mensuales |-> res.data.gastos_mensuales], None)

\* GET /analytics/resumen, /analytics/gastos-por-categoria and
\* /analytics/tendencias-mensuales
Analytics(ruta, dbOk) ==
    /\ LET res == obtener_resumen_financiero(txs, dbOk)
       IN  lastReq' = Answered(ruta, [dbOk |-> dbOk],
                            Tables(store, txs), Tables(store, txs),
                            IF res.success THEN AnalyticsBody(ruta, res) ELSE res,
                            StatusCatchAll(res))
    /\ UNCHANGED <<store, session, nextId, imp, calls, uuids, tasks, connections, wsock,
                   received, regs, faults, again, txs, txNextId>>

---------------------------------------------------------------------------
(* Specifications *)

Init ==
    /\ store = <<>>
    /\ session = <<>>
    /\ nextId = 1
    /\ imp = IdleCall
    /\ calls = 0
    /\ uuids = 0
    /\ tasks = <<>>
    /\ connections = [l \in {} |-> {}]
    /\ wsock = [w \in Observers |-> [pc |-> "idle", lote |-> None, open |-> TRUE,
                                     since |-> 0, missed |-> {}]]
    /\ received = [w \in Observers |-> <<>>]
    /\ regs = {}
    /\ faults = {}
    /\ again = {}
    /\ txs = <<>>
    /\ txNextId = 1
    /\ lastReq = NoRequest

\* the request bodies tried: <<archivoNombre, loteId>>
CallMenu == {<<None, None>>, <<None, "">>, <<"f.xlsx", "L1">>}

\* the list lengths tried: short lists and those around a multiple of ProgressEvery
RowCounts == {n \in 1..MaxRows : n <= 2 \/ (n + 1) % ProgressEvery <= 2}

Import ==
    \E n \in RowCounts, last \in RowMenu, c \in CallMenu, loop \in BOOLEAN :
        ImportStart(Filas(n, last), c[1], c[2], loop)

\* the import path: every request body of the menu, one websocket client
Next ==
    \/ Import
    \/ ImportRow
    \/ ImportCommit
    \/ \E i \in 1..Len(tasks) : DispatchStart(i)
    \/ \E i \in 1..Len(tasks) : DispatchResume(i)
    \/ \E l \in ClientLotes : WsConnect("w1", l)
    \/ ClientClose("w1")
    \/ WsExit("w1")

Spec == Init /\ [][Next]_vars

\* an import of ProgressEvery + 1 rows for lote L1, its last row a dict or a scalar
ImportL1 ==
    \E last \in {PlainRow, ScalarRow} :
        ImportStart(Filas(ProgressEvery + 1, last), None, "L1", TRUE)

\* the notification path: one import, every websocket client
NextNotify ==
    \/ ImportL1
    \/ ImportRow
    \/ ImportCommit
    \/ \E i \in 1..Len(tasks) : DispatchStart(i)
    \/ \E i \in 1..Len(tasks) : DispatchResume(i)
    \/ \E w \in Observers, l \in ClientLotes : WsConnect(w, l)
    \/ \E w \in Observers : ClientClose(w)
    \/ \E w \in Observers : WsExit(w)

SpecNotify == Init /\ [][NextNotify]_vars

\* the calls of send_progress / send_complete tried
SendMenu == {<<"progress", "L1">>, <<"complete", "L1">>, <<"progress", "L2">>}

\* the registry alone, its operations called in any order
NextApi ==
    \/ \E l \in ClientLotes, w \in Observers : ApiRegister(l, w)
    \/ \E l \in ClientLotes, w \in Observers : ApiUnregister(l, w)
    \/ \E c \in SendMenu : ApiSend(c[1], c[2])
    \/ \E w \in Observers : ApiBreak(w)
    \/ \E i \in 1..Len(tasks) : DispatchStart(i)
    \/ \E i \in 1..Len(tasks) : DispatchResume(i)

SpecApi == Init /\ [][NextApi]_vars

\* a row that comes in already flagged hidden
HiddenRow == [shape |-> "dict", d |-> [EmptyDict EXCEPT !.x = "v", !.oculto = PyTrue]]

\* a client-supplied import of two rows for batch L1, the second one hidden
ImportLote == ImportStart(Filas(2, HiddenRow), "f.xlsx", "L1", TRUE)

\* the sheet rows tried: the sheet may have columns lote_id and oculto; a
\* date cell is read as a Timestamp
FilaL1 == SheetRow([EmptyDict EXCEPT !.x = "v", !.lote_id = "L1"], "none")
FilaL1Oculta == SheetRow([EmptyDict EXCEPT !.x = "w", !.lote_id = "L1", !.oculto = PyTrue], "none")
FilaL2Si == SheetRow([EmptyDict EXCEPT !.x = "v", !.lote_id = "L2", !.oculto = "si"], "none")
FilaL2Visible == SheetRow([EmptyDict EXCEPT !.x = "v", !.lote_id = "L2", !.oculto = PyFalse], "none")
FilaFecha == SheetRow([EmptyDict EXCEPT !.x = "2026-01-05 00:00:00"], "unserializable")
FilaRota == SheetRow([EmptyDict EXCEPT !.x = "v"], "raise")

SheetMenu == {<<>>,
              <<FilaL1, FilaL1Oculta>>,
              <<FilaL2Si>>,
              <<FilaL2Visible, FilaL1>>,
              <<FilaL1, FilaFecha>>,
              <<FilaRota, FilaL2Visible>>,
              <<FilaL1Oculta, FilaRota, FilaFecha>>}

\* the uploads tried: <<filename, readable, sheet, dbOk>>; every sheet as a
\* readable .xlsx file on a working database, and one sheet under each failure
UploadMenu ==
    {<<"a.xlsx", TRUE, sheet, TRUE>> : sheet \in SheetMenu}
        \cup {<<"a.csv", TRUE, <<FilaL2Si>>, TRUE>>,
              <<"a.xls", FALSE, <<FilaL2Si>>, TRUE>>,
              <<"a.xlsx", TRUE, <<FilaL2Si>>, FALSE>>}

\* the transactions created
CreateGasto ==
    [fecha |-> "2026-10-05", tipo |-> "gasto", categoria |-> "comida",
     monto |-> Monto(5), descripcion |-> "nota"]

CreateMenu ==
    {[fecha |-> "2026-10-05", tipo |-> "ingreso", categoria |-> "renta",
      monto |-> Monto(7), descripcion |-> None],
     CreateGasto,
     [fecha |-> "2025-03-07", tipo |-> "gasto", categoria |-> "renta",
      monto |-> Monto(7), descripcion |-> None],
     [fecha |-> "2026-10-05", tipo |-> "gasto", categoria |-> "comida",
      monto |-> Monto(0), descripcion |-> None],
     [fecha |-> "2025-03-07", tipo |-> "ingreso", categoria |-> "comida",
      monto |-> Monto(-3), descripcion |-> "nota"],
     [fecha |-> "2026-10-05", tipo |-> "otro", categoria |-> "comida",
      monto |-> Monto(5), descripcion |-> None]}

\* the inputs S of a handler on a working database, and the input `failing`
\* on a database that raises: <<input, dbOk>>
DbMenu(S, failing) == {<<x, TRUE>> : x \in S} \cup {<<failing, FALSE>>}

\* the imported-row store: imports, hide, restore, delete-all, next to the
\* transactions table
NextStore ==
    \/ ImportLote
    \/ ImportRow
    \/ ImportCommit
    \/ \E u \in UploadMenu : CargarArchivoExcel(u[1], u[2], u[3], u[4])
    \/ \E c \in DbMenu(ClientLotes, "L1") : OcultarLote(c[1], c[2])
    \/ \E c \in DbMenu(ClientLotes, "L1") : RestaurarLote(c[1], c[2])
    \/ \E dbOk \in BOOLEAN : EliminarTodosLosImportados(dbOk)
    \/ CrearTransaccion(CreateGasto, TRUE)

SpecStore == Init /\ [][NextStore]_vars

\* an update body: the fields supplied and their values
Update(supplied, fecha, tipo, categoria, monto, descripcion) ==
    [supplied |-> supplied,
     v |-> [fecha |-> fecha, tipo |-> tipo, categoria |-> categoria, monto |-> monto,
            descripcion |-> descripcion]]

\* the update bodies tried; a field that is not supplied holds None / Null
UpdateMonto == Update({"monto"}, None, None, None, Monto(5), None)

UpdateMenu ==
    {Update({}, None, None, None, Null, None),
     UpdateMonto,
     Update({"monto"}, None, None, None, Monto(0), None),
     Update({"monto"}, None, None, None, Null, None),
     Update({"tipo"}, None, None, None, Null, None),
     Update({"tipo"}, None, "otro", None, Null, None),
     Update({"descripcion"}, None, None, None, Null, None),
     Update({"tipo", "categoria"}, None, "gasto", "comida", Null, None),
     Update({"monto", "categoria"}, None, None, "renta", Null, None),
     Update({"tipo", "monto"}, None, "ingreso", None, Monto(-3), None),
     Update({"fecha", "tipo", "categoria", "monto"}, "2026-10-05", "ingreso", "renta",
            Monto(5), None)}

\* the identifiers asked for: those ever assigned and one never assigned
TxIds == 1..(MaxTx + 1)

\* the transactions and analytics routes, called in any order
NextTx ==
    \/ \E c \in DbMenu(CreateMenu, CreateGasto) : CrearTransaccion(c[1], c[2])
    \/ \E c \in DbMenu((0..1) \X {1, MaxTx}, <<0, 1>>) :
          ObtenerTransacciones(c[1][1], c[1][2], c[2])
    \/ \E c \in DbMenu(TxIds, 1) : ObtenerTransaccionPorId(c[1], c[2])
    \/ \E c \in DbMenu(TxIds \X UpdateMenu, <<1, UpdateMonto>>) :
          ActualizarTransaccion(c[1][1], c[1][2], c[2])
    \/ \E c \in DbMenu(TxIds, 1) : EliminarTransaccion(c[1], c[2])
    \/ \E ruta \in {"resumen", "gastos-por-categoria", "tendencias-mensuales"},
          dbOk \in BOOLEAN : Analytics(ruta, dbOk)

SpecTx == Init /\ [][NextTx]_vars

\* the sheets of the workbooks tried: name, headers, number of data rows
Hoja(nombre, columnas, filas) == [nombre |-> nombre, columnas |-> columnas, filas |-> filas]

HeaderMenu == {<<>>, <<"a">>, <<"b", "a">>, <<"a", "b", "c">>}

Workbooks ==
    {<<Hoja("Hoja1", h, 3)>> : h \in HeaderMenu}
        \cup {<<Hoja("Hoja1", h, MuestraMax + 2), Hoja("Hoja2", g, 0)>> :
                 h \in HeaderMenu, g \in HeaderMenu}

\* the expected_columns form field: absent, empty, not JSON, JSON values
FormMenu == {None, "", "a,b", "[]", "[\"a\"]", "[\"a\",\"b\"]", "[\"c\",\"a\",\"c\"]",
             "[\"d\"]", "null", "0", "5", "\"ab\""}

\* the preview route alone
NextPreview ==
    \E filename \in {"a.xlsx", "a.csv"}, readable \in BOOLEAN, hojas \in Workbooks,
       expected_columns \in FormMenu :
        PrevisualizarHojasExcel(filename, readable, hojas, expected_columns)

SpecPreview == Init /\ [][NextPreview]_vars

---------------------------------------------------------------------------
(* Properties *)

\* number of occurrences of e in the sequence q
Count(q, e) == Cardinality({k \in 1..Len(q) : q[k] = e})

\* the stored rows that the running / last import call inserted
Mine == {k \in 1..Len(store) : store[k].id >= imp.firstId}

\* the increasing sequence of the numbers of S
RECURSIVE Sorted(_)
Sorted(S) ==
    IF S = {} THEN <<>>
    ELSE LET m == CHOOSE x \in S : \A y \in S : y <= x
         IN  Append(Sorted(S \ {m}), m)

\* C1: an import is all-or-nothing.  In every state the store holds none or
\* all of the call's rows; after the call returned it holds all N of them
\* and the result is success with total_creados = N, or it holds none and
\* the result is a failure.
C1_AllOrNothing ==
    /\ Cardinality(Mine) \in {0, imp.total}
    /\ imp.pc = "loop" => Mine = {}
    /\ imp.pc = "done" =>
         /\ session = <<>>
         /\ IF imp.result.success
            THEN /\ Cardinality(Mine) = imp.total
                 /\ imp.result.data.total_creados = imp.total
            ELSE Mine = {}

\* a call failed after rows had been added to the session, and none is stored
C1_Witness ==
    /\ imp.pc = "done"
    /\ ~imp.result.success
    /\ imp.creados >= 1
    /\ Mine = {}

\* C2: the batch identifier is stable.  Every row the call adds to the
\* session and every row it persists carries the call's lote_id; the result
\* returns that lote_id; it is the caller's identifier when the caller
\* supplied one (a non-empty loteId); a lote_id key of an incoming row never
\* survives.
C2_StableLote ==
    /\ imp.pc \in {"loop", "done"} =>
         /\ \A k \in 1..Len(session) : session[k].lote_id = imp.lote_id
         /\ \A k \in Mine : store[k].datos.lote_id = imp.lote_id
         /\ imp.lote_id \notin {None, "", Absent}
         /\ Truthy(imp.lote_arg) => imp.lote_id = imp.lote_arg
    /\ (imp.pc = "done" /\ imp.result.success) =>
         /\ imp.result.data.lote_id = imp.lote_id
         /\ \A k \in Mine : store[k].datos.lote_id = imp.result.data.lote_id

\* a call for lote L1 stored a row that came in with lote_id L2
C2_Witness ==
    /\ imp.pc = "done"
    /\ imp.result.success
    /\ imp.lote_arg = "L1"
    /\ imp.total >= 2
    /\ imp.filas[imp.total].d.lote_id = "L2"
    /\ Cardinality(Mine) = imp.total

\* the progress tasks the running / last call created, in creation order
Fired == SelectSeq(tasks, LAMBDA t : t.call = calls /\ t.kind = "progress")

\* the processed counts at which a list of n rows reports progress, up to k
ProgressCounts(n, k) == {c \in 1..k : c % ProgressEvery = 0 \/ c = n}

\* C3: progress fires at the multiples of 10 and at N, once each, in
\* increasing order, with total = N.  After k rows of the loop the events
\* fired are exactly those of the counts up to k; a call whose loop ran
\* through its N rows has fired exactly the multiples of 10 and N.
C3_ProgressRule ==
    imp.pc \in {"loop", "done"} =>
        /\ [k \in 1..Len(Fired) |-> Fired[k].processed]
               = Sorted(ProgressCounts(imp.total, imp.idx))
        /\ \A k \in 1..Len(Fired) :
               Fired[k].total = imp.total /\ Fired[k].lote = imp.lote_id
        /\ imp.result.success => imp.idx = imp.total

\* 20 rows: events at 10 and 20, the final one not doubled
C3_Witness ==
    /\ imp.pc = "done"
    /\ imp.result.success
    /\ imp.total = 2 * ProgressEvery
    /\ Len(Fired) = 2

\* the completion tasks the running / last call created
Completions == SelectSeq(tasks, LAMBDA t : t.call = calls /\ t.kind = "complete")

\* C4: one completion notification per successful call, created after the
\* commit went through; none for a call that failed.
C4_CompleteOnceAfterCommit ==
    /\ Len(Completions) = IF imp.pc = "done" /\ imp.result.success THEN 1 ELSE 0
    /\ Len(Completions) > 0 =>
         /\ imp.committed
         /\ Cardinality(Mine) = imp.total
         /\ Completions[1].lote = imp.lote_id

\* the completion event of a stored batch reached the websocket
C4_Witness ==
    \E i \in 1..Len(tasks) :
        /\ tasks[i].kind = "complete"
        /\ tasks[i].st = "done"
        /\ Count(received["w1"], i) = 1
        /\ Cardinality(Mine) = imp.total

\* what the call returns when notifications are left out of the picture
Reference(c, commitOk) ==
    IF \E k \in 1..Len(c.filas) : ~DictOfRow(c.filas[k]).ok THEN Failure("TypeError")
    ELSE IF ~commitOk THEN Failure("DBError")
    ELSE Success(Len(c.filas), c.lote_id, c.archivo_nombre)

\* C5: a notification failure never fails the import.  The result and the
\* stored rows are those of the rows and of the commit alone, whatever the
\* observers do and whether or not the tasks can be created.
C5_DispatchNeverFailsImport ==
    imp.pc = "done" =>
        /\ \E commitOk \in BOOLEAN : imp.result = Reference(imp, commitOk)
        /\ Cardinality(Mine) = IF imp.result.success THEN imp.total ELSE 0

\* C5, with a running event loop: the result and the stored rows do not
\* depend on the observers' sends
C5_WithLoop ==
    (imp.pc = "done" /\ imp.loop) =>
        /\ \E commitOk \in BOOLEAN : imp.result = Reference(imp, commitOk)
        /\ Cardinality(Mine) = IF imp.result.success THEN imp.total ELSE 0

\* C6: failure isolation.  An observer whose send raised is unregistered
\* from the batch; when the dispatch has ended, every other observer of its
\* snapshot whose own send did not raise has received the event, once.
C6_FailureIsolation ==
    \A i \in 1..Len(tasks) :
        /\ \A w \in tasks[i].failed : w \notin Get(connections, tasks[i].lote)
        /\ tasks[i].st = "done" =>
             \A w \in tasks[i].snap \ tasks[i].failed : Count(received[w], i) = 1

\* a dispatch to two observers ended: one send raised, the other delivered
C6_Witness ==
    \E i \in 1..Len(tasks) :
        /\ tasks[i].st = "done"
        /\ Cardinality(tasks[i].snap) = 2
        /\ Cardinality(tasks[i].failed) = 1
        /\ \E w \in tasks[i].snap \ tasks[i].failed : Count(received[w], i) = 1

\* C7: the registry never maps a batch to an empty observer set.
C7_NoEmptyEntry ==
    \A l \in DOMAIN connections : connections[l] # {}

\* a failed send removed an observer and the batch has no entry any more
C7_Witness ==
    \E i \in 1..Len(tasks) :
        /\ tasks[i].failed # {}
        /\ tasks[i].lote \notin DOMAIN connections
        /\ regs = {}

\* C8: register is idempotent.  Registering an observer that is in the
\* batch's set leaves the registry as it is, and no dispatch delivers its
\* event to an observer more than once: a finished dispatch has delivered
\* it exactly once to every observer of its snapshot whose send did not raise.
C8_RegisterIdempotent ==
    /\ \A l \in DOMAIN connections : \A w \in connections[l] :
           register(connections, l, w) = connections
    /\ \A i \in 1..Len(tasks) : \A w \in Observers :
           /\ Count(received[w], i) <= 1
           /\ (tasks[i].st = "done" /\ w \in tasks[i].snap \ tasks[i].failed)
                  => Count(received[w], i) = 1

\* an observer was registered twice for a batch; a dispatch started after
\* that delivered its event to it once
C8_Witness ==
    \E i \in 1..Len(tasks) : \E w \in again :
        /\ tasks[i].st = "done"
        /\ w \in tasks[i].snap
        /\ Count(received[w], i) = 1
        /\ Cardinality(tasks[i].snap) = 2

\* C9: no replay.  An observer never receives an event whose dispatch had
\* started when the observer registered.
C9_NoReplay ==
    \A w \in Observers : \A i \in wsock[w].missed : Count(received[w], i) = 0

\* an observer registered after an event of its batch had been sent, missed
\* it, and received a later event of the batch
C9_Witness ==
    \E w \in Observers : \E i \in wsock[w].missed : \E j \in 1..Len(tasks) :
        /\ tasks[i].st = "done"
        /\ j > i
        /\ Count(received[w], j) = 1
        /\ Count(received[w], i) = 0

\* C10: the registry tolerates concurrent mutation.  No dispatch raises
\* while iterating, and the registry holds exactly the pairs registered and
\* since neither unregistered nor dropped by a failed send (so a dispatch
\* adds none).
C10_ConcurrentMutation ==
    /\ faults = {}
    /\ \A i \in 1..Len(tasks) : ~tasks[i].fault
    /\ Pairs(connections) = regs

\* two dispatches are suspended at a send, one of them half way through
\* its two observers, and the registry no longer equals its copy
C10_Witness ==
    \E i, j \in 1..Len(tasks) :
        /\ i # j
        /\ tasks[i].st = "sending" /\ tasks[j].st = "sending"
        /\ Cardinality(tasks[i].snap) = 2
        /\ Cardinality(tasks[i].visited) = 2
        /\ Get(connections, tasks[i].lote) # tasks[i].snap

\* the positions of the rows of batch b
DelLote(rows, b) == {k \in 1..Len(rows) : rows[k].datos.lote_id = b}

\* C11: hide and restore are idempotent per batch.  A hide of a batch whose
\* rows are all hidden reports registros_afectados = 0 and leaves the rows
\* as they were; so does a restore of a batch whose rows are all visible
\* (flag false, null or never set).  Applied a second time to any store, each
\* of the two changes nothing and counts 0.
C11_HideRestoreIdempotent ==
    /\ (/\ lastReq.op = "hide"
        /\ lastReq.res.success
        /\ \A k \in DelLote(lastReq.pre.store, lastReq.arg.lote_id) :
               Oculto(lastReq.pre.store[k].datos))
          => /\ lastReq.res.registros_afectados = 0
             /\ lastReq.post.store = lastReq.pre.store
    /\ (/\ lastReq.op = "restore"
        /\ lastReq.res.success
        /\ \A k \in DelLote(lastReq.pre.store, lastReq.arg.lote_id) :
               ~Oculto(lastReq.pre.store[k].datos))
          => /\ lastReq.res.registros_afectados = 0
             /\ lastReq.post.store = lastReq.pre.store
    /\ \A b \in ClientLotes :
          /\ ocultar_lote(ocultar_lote(store, b).rows, b)
                = [rows |-> ocultar_lote(store, b).rows, cambios |-> 0]
          /\ restaurar_lote(restaurar_lote(store, b).rows, b)
                = [rows |-> restaurar_lote(store, b).rows, cambios |-> 0]

\* a hide of L1 was answered with 0: the batch had two or more rows, all
\* hidden, one of them a sheet row uploaded visible and hidden by an earlier hide
C11_Witness ==
    /\ lastReq.op = "hide"
    /\ lastReq.arg.lote_id = "L1"
    /\ lastReq.res.success
    /\ lastReq.res.registros_afectados = 0
    /\ Cardinality(DelLote(lastReq.pre.store, lastReq.arg.lote_id)) >= 2
    /\ \A k \in DelLote(lastReq.pre.store, lastReq.arg.lote_id) :
           Oculto(lastReq.pre.store[k].datos)
    /\ \E k \in DelLote(lastReq.pre.store, lastReq.arg.lote_id) :
           /\ lastReq.pre.store[k].datos.x = "v"
           /\ lastReq.pre.store[k].datos.archivo_nombre = Absent
    /\ lastReq.post.store = lastReq.pre.store

\* the flag value a handler writes
Target(op) == IF op = "hide" THEN PyTrue ELSE PyFalse

\* the positions of the rows of batch b whose hidden state is not the one
\* the handler op brings about
ToChange(rows, b, op) ==
    {k \in DelLote(rows, b) : IF op = "hide" THEN ~Oculto(rows[k].datos)
                                             ELSE Oculto(rows[k].datos)}

\* C12: frame of hide and restore.  A hide / restore of batch b that returns
\* normally writes the target flag on exactly the rows of b whose hidden
\* state differs from it, reports their number as registros_afectados, and
\* leaves alone the identifiers, every other payload field of those rows,
\* every other row (of b or of another batch) and the transactions; one
\* that fails leaves both tables as they were.
C12_HideRestoreFrame ==
    lastReq.op \in {"hide", "restore"} =>
        LET pre == lastReq.pre.store
            post == lastReq.post.store
            changed == ToChange(pre, lastReq.arg.lote_id, lastReq.op)
        IN  /\ lastReq.post.txs = lastReq.pre.txs
            /\ ~lastReq.res.success => post = pre
            /\ lastReq.res.success =>
                 /\ Len(post) = Len(pre)
                 /\ lastReq.res.registros_afectados = Cardinality(changed)
                 /\ \A k \in 1..Len(pre) :
                       IF k \in changed
                       THEN /\ post[k].id = pre[k].id
                            /\ post[k].datos.oculto = Target(lastReq.op)
                            /\ post[k].datos.x = pre[k].datos.x
                            /\ post[k].datos.lote_id = pre[k].datos.lote_id
                            /\ post[k].datos.archivo_nombre = pre[k].datos.archivo_nombre
                       ELSE post[k] = pre[k]

\* a hide of L1 changed some rows of L1 that carry a file name, next to a row
\* of L1 that was hidden already and a visible row of L2, which stayed visible
C12_Witness ==
    /\ lastReq.op = "hide"
    /\ lastReq.arg.lote_id = "L1"
    /\ lastReq.res.success
    /\ lastReq.res.registros_afectados >= 1
    /\ \E k \in ToChange(lastReq.pre.store, "L1", "hide") :
           lastReq.pre.store[k].datos.archivo_nombre = "f.xlsx"
    /\ \E k \in DelLote(lastReq.pre.store, "L1") : Oculto(lastReq.pre.store[k].datos)
    /\ \E k \in DelLote(lastReq.pre.store, "L2") :
           /\ ~Oculto(lastReq.pre.store[k].datos)
           /\ lastReq.post.store[k] = lastReq.pre.store[k]

\* C13: delete-all.  On a store of any number of imported rows, hidden or
\* visible and of any batch, delete-all leaves no imported row and answers
\* success=true, and the transactions are as before; only a storage failure
\* is answered with success=false, and then the rows are as before.
C13_DeleteAll ==
    lastReq.op = "delete_all" =>
        /\ lastReq.post.txs = lastReq.pre.txs
        /\ lastReq.res.success = lastReq.arg.dbOk
        /\ lastReq.res.success => lastReq.post.store = <<>>
        /\ ~lastReq.res.success => lastReq.post.store = lastReq.pre.store

\* delete-all emptied a store of rows of L1 and L2, hidden and visible, and
\* the transactions stayed
C13_Witness ==
    /\ lastReq.op = "delete_all"
    /\ lastReq.res.success
    /\ Len(lastReq.pre.store) >= 3
    /\ \E k \in DelLote(lastReq.pre.store, "L1") : Oculto(lastReq.pre.store[k].datos)
    /\ \E k \in DelLote(lastReq.pre.store, "L2") : ~Oculto(lastReq.pre.store[k].datos)
    /\ lastReq.post.store = <<>>
    /\ store = <<>>
    /\ lastReq.pre.txs # <<>>
    /\ txs = lastReq.pre.txs

\* C14: bulk file import tolerates a failing row.  For a readable sheet of n
\* data rows on a working storage the call returns success=true with
\* total_filas = n and creados + len(errores) = n, and exactly creados new
\* rows are committed, whatever row fails.
C14_RowFailureTolerated ==
    (/\ lastReq.op = "excel"
     /\ ExtOk(lastReq.arg.filename)
     /\ lastReq.arg.readable
     /\ lastReq.arg.dbOk)
        => /\ lastReq.res.success
           /\ lastReq.res.data.total_filas = Len(lastReq.arg.sheet)
           /\ lastReq.res.data.creados + Len(lastReq.res.data.errores)
                 = Len(lastReq.arg.sheet)
           /\ Len(lastReq.post.store) = Len(lastReq.pre.store) + lastReq.res.data.creados

\* C14, for the sheets whose every cell json can encode: the rows that raise
\* inside the per-row try are recorded, the others are committed
C14_SerializableSheet ==
    (/\ lastReq.op = "excel"
     /\ ExtOk(lastReq.arg.filename)
     /\ lastReq.arg.readable
     /\ lastReq.arg.dbOk
     /\ Serializable(lastReq.arg.sheet))
        => /\ lastReq.res.success
           /\ lastReq.res.data.total_filas = Len(lastReq.arg.sheet)
           /\ lastReq.res.data.creados + Len(lastReq.res.data.errores)
                 = Len(lastReq.arg.sheet)
           /\ Len(lastReq.post.store) = Len(lastReq.pre.store) + lastReq.res.data.creados

\* C15: the stored transactions stay valid.  After any sequence of create,
\* update and delete requests, accepted or rejected, every stored
\* transaction has an amount > 0 and a kind in {ingreso, gasto}; a create or
\* an update that supplies an amount <= 0 is rejected and leaves the table
\* as it was, and so does an update that supplies a null amount.
C15_StoredValid ==
    /\ \A k \in 1..Len(txs) :
          /\ txs[k].monto # Null
          /\ txs[k].monto[1] > 0
          /\ txs[k].tipo \in TipoTransaccion
    /\ (/\ lastReq.op = "crear"
        /\ ~Gt0(lastReq.arg.req.monto))
          => /\ lastReq.status = 422
             /\ lastReq.post.txs = lastReq.pre.txs
    /\ (/\ lastReq.op = "actualizar"
        /\ "monto" \in lastReq.arg.req.supplied
        /\ ~Gt0(lastReq.arg.req.v.monto))
          => /\ lastReq.status \in {400, 404, 422}
             /\ ~lastReq.res.success
             /\ lastReq.post.txs = lastReq.pre.txs
             /\ txs = lastReq.pre.txs

\* an update of a stored transaction supplied a null amount next to a new
\* category: it was answered 400 and the transaction kept amount and category
C15_Witness ==
    /\ lastReq.op = "actualizar"
    /\ lastReq.arg.req.supplied = {"monto", "categoria"}
    /\ lastReq.arg.req.v.monto = Null
    /\ Find(lastReq.pre.txs, lastReq.arg.id) # {}
    /\ lastReq.status = 400
    /\ \E k \in Find(txs, lastReq.arg.id) :
          /\ Gt0(txs[k].monto)
          /\ txs[k].categoria # lastReq.arg.req.v.categoria

\* C16: frame of a partial update.  An update of an existing transaction
\* changes at most the fields supplied in the request, and on success gives
\* them the supplied values; the fields not supplied, the identifier and
\* every other transaction keep their values.  An update of an identifier
\* that is not stored returns the not-found result (404) and changes
\* nothing; so does every update that fails.
C16_PartialUpdateFrame ==
    lastReq.op = "actualizar" =>
        LET pre == lastReq.pre.txs
            post == lastReq.post.txs
            id == lastReq.arg.id
            req == lastReq.arg.req
        IN  /\ lastReq.post.store = lastReq.pre.store
            /\ Len(post) = Len(pre)
            /\ \A k \in 1..Len(pre) :
                  /\ post[k].id = pre[k].id
                  /\ pre[k].id # id => post[k] = pre[k]
                  /\ \A f \in Fields \ req.supplied : post[k][f] = pre[k][f]
                  /\ (lastReq.res.success /\ pre[k].id = id) =>
                        \A f \in req.supplied : post[k][f] = req.v[f]
            /\ ~lastReq.res.success => post = pre
            /\ (Find(pre, id) = {} /\ ValidUpdate(req) /\ lastReq.arg.dbOk) =>
                  /\ lastReq.status = 404
                  /\ ~lastReq.res.success
                  /\ NoEncontrada(lastReq.res.message)

\* an update that supplied every field but the description was applied to a
\* transaction with a description, next to a second transaction: the
\* description stayed, the supplied amount was written
C16_Witness ==
    /\ lastReq.op = "actualizar"
    /\ lastReq.res.success
    /\ lastReq.arg.req.supplied = {"fecha", "tipo", "categoria", "monto"}
    /\ Len(lastReq.pre.txs) = 2
    /\ \E k \in Find(lastReq.pre.txs, lastReq.arg.id) :
          /\ lastReq.pre.txs[k].descripcion = "nota"
          /\ lastReq.post.txs[k].descripcion = "nota"
          /\ lastReq.pre.txs[k].tipo = "gasto"
          /\ lastReq.post.txs[k].tipo = "ingreso"
          /\ lastReq.post.txs[k].monto = lastReq.arg.req.v.monto

\* the transactions and analytics handlers
TxOps == {"crear", "listar", "obtener", "actualizar", "eliminar",
          "resumen", "gastos-por-categoria", "tendencias-mensuales"}

\* C17: HTTP status of the transactions and analytics handlers.  A request
\* that reached the service is answered 200 on success, 404 when the
\* service reports a missing entity, 400 on every other failed result; 500
\* only for an exception that escaped, which no service lets happen.
C17_StatusMapping ==
    (lastReq.op \in TxOps /\ lastReq.status # 422) =>
        lastReq.status = IF lastReq.res.success THEN 200
                         ELSE IF NoEncontrada(lastReq.res.message) THEN 404
                         ELSE 400

\* C17, for the three handlers that re-raise HTTPException
\* (obtener_transaccion_por_id, actualizar_transaccion, eliminar_transaccion)
C17_ReraiseRoutes ==
    (lastReq.op \in {"obtener", "actualizar", "eliminar"} /\ lastReq.status # 422) =>
        lastReq.status = IF lastReq.res.success THEN 200
                         ELSE IF NoEncontrada(lastReq.res.message) THEN 404
                         ELSE 400

\* the sum of the amounts of the transactions at the positions K
RECURSIVE SumaDe(_, _)
SumaDe(ts, K) ==
    IF K = {} THEN 0
    ELSE LET k == CHOOSE j \in K : TRUE
         IN  ts[k].monto[1] + SumaDe(ts, K \ {k})

\* the positions of the transactions of a kind
Posiciones(ts, tipo) == {k \in 1..Len(ts) : ts[k].tipo = tipo}

\* the sum of the values of a mapping
RECURSIVE SumaValores(_)
SumaValores(f) ==
    IF DOMAIN f = {} THEN 0
    ELSE LET c == CHOOSE d \in DOMAIN f : TRUE
         IN  f[c] + SumaValores([d \in (DOMAIN f) \ {c} |-> f[d]])

\* C18: the financial summary.  For every table of transactions the summary
\* succeeds and returns total_ingresos = the sum of the amounts of kind
\* ingreso, total_gastos = the sum of those of kind gasto, balance = their
\* difference, and gastos_por_categoria = the sum of the expenses of each
\* category that has one, whose values add up to total_gastos; without
\* expenses total_gastos = 0 and gastos_por_categoria is empty.
C18_Resumen ==
    lastReq.op = "resumen" =>
        /\ lastReq.res.success = lastReq.arg.dbOk
        /\ lastReq.post = lastReq.pre
        /\ lastReq.res.success =>
             LET d == lastReq.res.data
                 ts == lastReq.pre.txs
                 gastos == Posiciones(ts, "gasto")
             IN  /\ d.total_ingresos = SumaDe(ts, Posiciones(ts, "ingreso"))
                 /\ d.total_gastos = SumaDe(ts, gastos)
                 /\ d.balance = d.total_ingresos - d.total_gastos
                 /\ DOMAIN d.gastos_por_categoria = {ts[k].categoria : k \in gastos}
                 /\ \A c \in DOMAIN d.gastos_por_categoria :
                       d.gastos_por_categoria[c]
                          = SumaDe(ts, {k \in gastos : ts[k].categoria = c})
                 /\ SumaValores(d.gastos_por_categoria) = d.total_gastos
                 /\ gastos = {} =>
                       /\ d.total_gastos = 0
                       /\ DOMAIN d.gastos_por_categoria = {}

\* a summary over one income and one expense: both totals positive, the
\* balance their difference, one category of expenses
C18_Witness ==
    /\ lastReq.op = "resumen"
    /\ lastReq.res.success
    /\ Len(lastReq.pre.txs) = 2
    /\ lastReq.res.data.total_ingresos > 0
    /\ lastReq.res.data.total_gastos > lastReq.res.data.total_ingresos
    /\ lastReq.res.data.balance < 0
    /\ Cardinality(DOMAIN lastReq.res.data.gastos_por_categoria) = 1

\* number of occurrences of c in the sequence q of column names
Veces(q, c) == Cardinality({k \in 1..Len(q) : q[k] = c})

\* the column names of a sequence
Columnas(q) == {q[k] : k \in 1..Len(q)}

\* C19: sheet preview.  For a readable workbook and an expected-column list
\* that is omitted, empty, not JSON, or a JSON list of names, the operation
\* succeeds with one entry per sheet: without a list (omitted, empty, not
\* JSON, null or []) every sheet has valido = true and faltantes = []; with
\* a list, faltantes holds exactly the expected names that are absent from
\* the sheet's headers, in the order and number given, and valido is true
\* exactly when faltantes is empty.
C19_SheetPreview ==
    (/\ lastReq.op = "preview"
     /\ lastReq.status = 200
     /\ lastReq.arg.readable
     /\ ColumnasEsperadas(lastReq.arg.expected_columns).t \in {"None", "list"})
        => LET esperadas == ColumnasEsperadas(lastReq.arg.expected_columns)
               hojas == lastReq.arg.hojas
           IN  /\ lastReq.res.success
               /\ Len(lastReq.res.data.sheets) = Len(hojas)
               /\ \A k \in 1..Len(hojas) :
                     LET info == lastReq.res.data.sheets[k]
                     IN  /\ info.nombre = hojas[k].nombre
                         /\ info.columnas_presentes = hojas[k].columnas
                         /\ info.valido = (info.faltantes = <<>>)
                         /\ IF esperadas.t = "None" \/ esperadas.v = <<>>
                            THEN info.valido /\ info.faltantes = <<>>
                            ELSE /\ Columnas(info.faltantes)
                                       = Columnas(esperadas.v) \ Columnas(hojas[k].columnas)
                                 /\ \A c \in Columnas(info.faltantes) :
                                       Veces(info.faltantes, c) = Veces(esperadas.v, c)

\* a workbook of two sheets previewed against ["a", "b"]: the first sheet
\* has both columns and is valid, the second lacks them and is not, and the
\* operation succeeded
C19_Witness ==
    /\ lastReq.op = "preview"
    /\ lastReq.status = 200
    /\ lastReq.res.success
    /\ ColumnasEsperadas(lastReq.arg.expected_columns) = PyList(<<"a", "b">>)
    /\ Len(lastReq.res.data.sheets) = 2
    /\ lastReq.res.data.sheets[1].valido
    /\ lastReq.res.data.sheets[1].faltantes = <<>>
    /\ ~lastReq.res.data.sheets[2].valido
    /\ lastReq.res.data.sheets[2].faltantes = <<"a", "b">>

\* the observers registered for the batch of the last import before the
\* import began, and neither unregistered nor dropped by a failed send since
Constantes == {w \in Observers : /\ wsock[w].pc = "listening"
                                 /\ wsock[w].lote = imp.lote_id
                                 /\ wsock[w].since < calls
                                 /\ <<imp.lote_id, w>> \in regs}

\* the events of the last import delivered to w, in the order of delivery
Entregas(w) == SelectSeq(received[w], LAMBDA i : tasks[i].call = calls)

\* C20: an observer that stays registered for the batch throughout a
\* client-supplied import receives the import's progress events in
\* increasing processed order and the completion event after all of them,
\* whichever way the notification tasks interleave at their sends.
C20_OrderedDelivery ==
    \A w \in Constantes :
        \A a, b \in 1..Len(Entregas(w)) :
            a < b =>
                LET ta == tasks[Entregas(w)[a]]
                    tb == tasks[Entregas(w)[b]]
                IN  /\ ta.kind = "progress"
                    /\ tb.kind = "progress" => ta.processed < tb.processed

\* C20, the part the tasks do guarantee: the dispatches start in the order
\* of their creation, each takes the observer in its snapshot, and when all
\* have ended the observer has received every event of the import once.
C20_AllDelivered ==
    \A w \in Constantes :
        /\ \A i, j \in 1..Len(tasks) : (i < j /\ Started(j)) => Started(i)
        /\ \A i \in 1..Len(tasks) :
              /\ Started(i) => w \in tasks[i].snap
              /\ tasks[i].st = "done" => Count(received[w], i) = 1

\* the progress events of the last import delivered to w
ProgresoEntregado(w) ==
    {k \in 1..Len(received[w]) : /\ tasks[received[w][k]].call = calls
                                 /\ tasks[received[w][k]].kind = "progress"}

\* C21: when importar_desde_json fails and rolls back, so that no row of
\* the batch is stored, no progress event of that batch is delivered to any
\* observer.
C21_NoProgressAfterRollback ==
    (/\ imp.pc = "done"
     /\ ~imp.result.success
     /\ ~imp.committed
     /\ Cardinality(Mine) = 0)
        => \A w \in Observers : ProgresoEntregado(w) = {}

\* C21, the part the code does guarantee: while the import runs nothing of
\* it is delivered, and a call that rolled back never creates the
\* completion event.
C21_NoCompletionAfterRollback ==
    /\ imp.pc = "loop" =>
          \A w \in Observers : \A k \in 1..Len(received[w]) :
              tasks[received[w][k]].call # calls
    /\ (imp.pc = "done" /\ ~imp.result.success) =>
          \A i \in 1..Len(tasks) :
              tasks[i].call = calls => tasks[i].kind = "progress"

\* the dispatch i calls ws.send_json in this step: it moves to an observer
Intenta(i) ==
    /\ tasks'[i].st = "sending"
    /\ tasks[i].st # "sending" \/ tasks[i].cur # tasks'[i].cur

\* C22: no send is attempted to an observer that was unregistered from the
\* batch.  Whenever a dispatch of send_progress / send_complete, in flight
\* or later, calls send_json on an observer, that observer is in the
\* registry under the batch of the event.
C22_NoSendAfterUnregister ==
    [][\A i \in 1..Len(tasks) :
          Intenta(i) => tasks'[i].cur \in Get(connections', tasks'[i].lote)]_vars

\* C22, the part that holds: a dispatch calls send_json only on observers
\* that were registered under the event's batch when its loop began, a
\* dispatch that begins after the unregister leaves the observer out, and
\* an event is delivered only to an observer still registered under its
\* batch.
C22_OnlyOwnBatch ==
    [][/\ \A i \in 1..Len(tasks) :
             /\ Intenta(i) => tasks'[i].cur \in tasks'[i].snap
             /\ (tasks[i].st = "new" /\ tasks'[i].st # "new")
                   => tasks'[i].snap = Get(connections, tasks[i].lote)
       /\ \A w \in Observers :
             received'[w] # received[w] =>
                 /\ Len(received'[w]) = Len(received[w]) + 1
                 /\ <<tasks[received'[w][Len(received'[w])]].lote, w>> \in regs
                 /\ w \in Get(connections, tasks[received'[w][Len(received'[w])]].lote)
                 /\ wsock[w].lote = tasks[received'[w][Len(received'[w])]].lote]_vars

=============================================================================
